---- MODULE Spec2Model ----
(***************************************************************************)
(* The two CI helper scripts of .github/scripts/shellcheck:                *)
(*   extract_shell_info.py  changeset + diff -> shell_scripts.txt,         *)
(*                          modified_lines_map.txt                         *)
(*   run_shellcheck.py      linter output -> trivial filter -> diff filter *)
(*                          -> total_issues / exit_code                    *)
(* Text is modelled as TLA+ strings, handled character by character, so    *)
(* that formatting and parsing are computed and not assumed.               *)
(***************************************************************************)
EXTENDS Integers, Sequences, FiniteSets, TLC

(***************************************************************************)
(* Bounds of the model.                                                    *)
(***************************************************************************)
MaxDiffLines == 4      \* lines of the diff file that are scanned
MaxRawLines == 3       \* lines the linter prints over all scripts
MaxLineNo == 10        \* largest line number of a round-trip line set

(***************************************************************************)
(* Python string operations, on the characters the model's texts hold.     *)
(***************************************************************************)
\* the character at position i (1-based), "" outside the string
Ch(s, i) == IF i >= 1 /\ i <= Len(s) THEN SubSeq(s, i, i) ELSE ""

\* str.strip() and the regex class \s: the whitespace the model's texts hold.
Whitespace == {" ", "\t", "\n", "\r"}

\* the regex class \d and the digits int() reads
Digits == {"0", "1", "2", "3", "4", "5", "6", "7", "8", "9"}

DigitVal(c) ==
  CASE c = "0" -> 0 [] c = "1" -> 1 [] c = "2" -> 2 [] c = "3" -> 3
    [] c = "4" -> 4 [] c = "5" -> 5 [] c = "6" -> 6 [] c = "7" -> 7
    [] c = "8" -> 8 [] c = "9" -> 9

DigitChar(d) ==
  CASE d = 0 -> "0" [] d = 1 -> "1" [] d = 2 -> "2" [] d = 3 -> "3"
    [] d = 4 -> "4" [] d = 5 -> "5" [] d = 6 -> "6" [] d = 7 -> "7"
    [] d = 8 -> "8" [] d = 9 -> "9"

SetMin(S) == CHOOSE x \in S : \A y \in S : x <= y
SetMax(S) == CHOOSE x \in S : \A y \in S : y <= x

\* s.startswith(p)
startswith(s, p) == Len(s) >= Len(p) /\ SubSeq(s, 1, Len(p)) = p

\* s.endswith(p)
endswith(s, p) == Len(s) >= Len(p) /\ SubSeq(s, Len(s) - Len(p) + 1, Len(s)) = p

\* p in s
contains(s, p) ==
  \E i \in 1..(Len(s) - Len(p) + 1) : SubSeq(s, i, i + Len(p) - 1) = p

\* s.strip()
strip(s) ==
  LET keep == {i \in 1..Len(s) : Ch(s, i) \notin Whitespace}
  IN  IF keep = {} THEN "" ELSE SubSeq(s, SetMin(keep), SetMax(keep))

\* s.split(sep) for a one-character sep: always at least one piece
RECURSIVE split(_, _)
split(s, sep) ==
  LET at == {i \in 1..Len(s) : Ch(s, i) = sep}
  IN  IF at = {} THEN <<s>>
      ELSE <<SubSeq(s, 1, SetMin(at) - 1)>>
             \o split(SubSeq(s, SetMin(at) + 1, Len(s)), sep)

\* sep.join(parts)
RECURSIVE join(_, _)
join(sep, parts) ==
  IF parts = <<>> THEN ""
  ELSE IF Len(parts) = 1 THEN parts[1]
  ELSE parts[1] \o sep \o join(sep, Tail(parts))

\* str(n) for n >= 0
RECURSIVE str(_)
str(n) == IF n < 10 THEN DigitChar(n) ELSE str(n \div 10) \o DigitChar(n % 10)

\* value of a run of decimal digits (int() of a \d+ group)
RECURSIVE DecimalValue(_)
DecimalValue(s) ==
  IF Len(s) = 0 THEN 0
  ELSE 10 * DecimalValue(SubSeq(s, 1, Len(s) - 1)) + DigitVal(Ch(s, Len(s)))

\* int(s): optional surrounding whitespace, optional sign, digits with single
\* underscores between them; anything else raises ValueError (ok = FALSE).
int(s) ==
  LET t    == strip(s)
      sign == IF Len(t) > 0 /\ Ch(t, 1) \in {"+", "-"} THEN Ch(t, 1) ELSE ""
      body == SubSeq(t, Len(sign) + 1, Len(t))
      good == /\ Len(body) > 0
              /\ \A i \in 1..Len(body) : Ch(body, i) \in Digits \cup {"_"}
              /\ Ch(body, 1) # "_" /\ Ch(body, Len(body)) # "_"
              /\ \A i \in 1..(Len(body) - 1) :
                    ~(Ch(body, i) = "_" /\ Ch(body, i + 1) = "_")
      digs == join("", SelectSeq(split(body, "_"), LAMBDA p : TRUE))
      mag  == DecimalValue(digs)
  IN  IF good THEN [ok |-> TRUE, val |-> IF sign = "-" THEN 0 - mag ELSE mag]
      ELSE [ok |-> FALSE, val |-> 0]

\* index just past the longest run of characters of class C that starts at i
RECURSIVE SpanEnd(_, _, _)
SpanEnd(s, i, C) ==
  IF i <= Len(s) /\ Ch(s, i) \in C THEN SpanEnd(s, i + 1, C) ELSE i

\* the lines a text file yields when iterated (for line in f), each with its
\* terminator removed; a final piece without terminator is a line too
FileLines(text) ==
  LET parts == split(text, "\n")
  IN  IF parts[Len(parts)] = "" THEN SubSeq(parts, 1, Len(parts) - 1) ELSE parts

(***************************************************************************)
(* extract_shell_info.py                                                   *)
(***************************************************************************)
VARIABLES
  pc,               \* position of the running script
  exit_status,      \* process exit status, -1 while running
  stdout,           \* the key=value lines printed for the workflow
  file_path,        \* is_shell_script: the argument
  fs,               \* the file system: path -> [kind, readable, data]
  ret,              \* is_shell_script / is_line_modified: the returned value
  changeset,        \* the changeset file
  changed_files,    \* extract main: the stripped non-blank changeset lines
  shell_scripts,    \* the shell scripts, in changeset order
  shell_scripts_txt,\* shell_scripts.txt
  content,          \* parse_diff_file: the diff lines scanned so far
  current_file,     \* parse_diff_file: <<>> for None, else <<name>>
  current_line_num, \* parse_diff_file
  modified_lines,   \* file -> set of line numbers (a defaultdict(set))
  k,                \* index of the next script in a loop over shell_scripts
  map_file,         \* modified_lines_map.txt
  shellcheck_installed, \* whether the shellcheck command can be started
  all_output,       \* run_shellcheck_on_files: the outputs collected so far
  raw_output,       \* run main: the combined linter output
  filtered_lines,   \* run main: the lines left by filter_trivial_issues
  modified_lines_map, \* run main: path -> entry of the map file
  diff_filtered_lines, \* run main: the findings on modified lines
  pos,              \* run main: index of the next filtered line
  out_files         \* the shellcheck_*.txt files written, name -> text

extract_vars ==
  <<changeset, changed_files, shell_scripts, shell_scripts_txt, content,
    current_file, current_line_num, modified_lines, k, map_file>>

run_vars ==
  <<shellcheck_installed, all_output, raw_output, filtered_lines,
    modified_lines_map, diff_filtered_lines, pos, out_files>>

vars == <<pc, exit_status, stdout, file_path, fs, ret, extract_vars, run_vars>>

\* the variables of run_shellcheck.py before it runs
RunIdle ==
  /\ all_output = <<>>
  /\ raw_output = ""
  /\ filtered_lines = <<>>
  /\ modified_lines_map = <<>>
  /\ diff_filtered_lines = <<>>
  /\ pos = 1
  /\ out_files = <<>>

NoFile == [kind |-> "absent", readable |-> FALSE, data |-> ""]
Dir == [kind |-> "dir", readable |-> TRUE, data |-> ""]
File(data) == [kind |-> "file", readable |-> TRUE, data |-> data]
Unreadable(data) == [kind |-> "file", readable |-> FALSE, data |-> data]

\* os.path.isfile
isfile(path) == path \in DOMAIN fs /\ fs[path].kind = "file"

\* f.readline(): the text up to and including the first newline
readline(data) ==
  LET at == {i \in 1..Len(data) : Ch(data, i) = "\n"}
  IN  IF at = {} THEN data ELSE SubSeq(data, 1, SetMin(at))

\* faulty variant: the shebang test looks for "bash" only
is_shell_script_BashOnly(path) ==
  IF endswith(path, ".sh") \/ endswith(path, ".bash") THEN TRUE
  ELSE IF isfile(path) /\ fs[path].readable
    THEN LET first_line == strip(readline(fs[path].data))
         IN  startswith(first_line, "#!") /\ contains(first_line, "bash")
    ELSE FALSE

is_shell_script(path) ==
  IF endswith(path, ".sh") \/ endswith(path, ".bash") THEN TRUE
  ELSE IF isfile(path)
    THEN IF fs[path].readable
           THEN LET first_line == strip(readline(fs[path].data))
                IN  startswith(first_line, "#!")
                      /\ (contains(first_line, "bash") \/ contains(first_line, "sh"))
           ELSE FALSE       \* IOError / OSError: skipped
    ELSE FALSE

(***************************************************************************)
(* is_shell_script on its own: a path and the file found at that path.     *)
(***************************************************************************)
ClassifyPaths == {"a.sh", "b.bash", ".sh", "run", "sh", "a.sh.txt", "x.py"}

ClassifyData ==
  {"", "#!/bin/sh\nls\n", "#!/bin/bash", " #!/bin/sh\n", "#!/usr/bin/python\n",
   "echo sh\n", "\n#!/bin/sh\n", "#!/usr/bin/fish\n", "\t#!/bin/bash \n"}

ClassifyFiles ==
  {NoFile, Dir} \cup {File(d) : d \in ClassifyData}
    \cup {Unreadable(d) : d \in {"#!/bin/sh\nls\n"}}

InitClassify ==
  /\ pc = "classify"
  /\ exit_status = -1
  /\ file_path \in ClassifyPaths
  /\ \E f \in ClassifyFiles : fs = [p \in {file_path} |-> f]
  /\ ret = "none"
  /\ stdout = <<>>
  /\ changeset = NoFile
  /\ changed_files = <<>>
  /\ shell_scripts = <<>>
  /\ shell_scripts_txt = NoFile
  /\ content = <<>>
  /\ current_file = <<>>
  /\ current_line_num = 0
  /\ modified_lines = <<>>
  /\ k = 1
  /\ map_file = NoFile
  /\ shellcheck_installed = TRUE
  /\ RunIdle

Classify ==
  /\ pc = "classify"
  /\ ret' = is_shell_script(file_path)
  /\ pc' = "classified"
  /\ UNCHANGED <<exit_status, stdout, file_path, fs, extract_vars, run_vars>>

NextClassify == Classify

SpecClassify == InitClassify /\ [][NextClassify]_vars

(***************************************************************************)
(* parse_diff_file                                                         *)
(***************************************************************************)
\* re.match(r'^diff --git a/(.+) b/(.+)$', line): <<>> when there is no match,
\* else <<group(1)>>; the first group is greedy, so it ends at the last " b/"
\* that leaves both groups non-empty.
git_diff_match(line) ==
  LET P == "diff --git a/"
      at == {i \in (Len(P) + 2)..(Len(line) - 3) : SubSeq(line, i, i + 2) = " b/"}
  IN  IF startswith(line, P) /\ at # {}
        THEN <<SubSeq(line, Len(P) + 1, SetMax(at) - 1)>>
        ELSE <<>>

\* the optional group (?:,\d+)? read at position i: the position after it
OptCount(line, i) ==
  IF Ch(line, i) = "," /\ SpanEnd(line, i + 1, Digits) > i + 1
    THEN SpanEnd(line, i + 1, Digits)
    ELSE i

\* re.match(r'^@@\s+-\d+(?:,\d+)?\s+\+(\d+)(?:,\d+)?\s+@@', line): <<>> when
\* there is no match, else <<int(group(1))>>
hunk_match(line) ==
  LET p1 == SpanEnd(line, 3, Whitespace)          \* after "@@\s+"
      p2 == SpanEnd(line, p1 + 1, Digits)         \* after "-\d+"
      p3 == OptCount(line, p2)
      p4 == SpanEnd(line, p3, Whitespace)         \* after "\s+"
      p5 == SpanEnd(line, p4 + 1, Digits)         \* after "\+(\d+)"
      p6 == OptCount(line, p5)
      p7 == SpanEnd(line, p6, Whitespace)         \* after "\s+"
  IN  IF /\ startswith(line, "@@")
         /\ p1 > 3
         /\ Ch(line, p1) = "-" /\ p2 > p1 + 1
         /\ p4 > p3
         /\ Ch(line, p4) = "+" /\ p5 > p4 + 1
         /\ p7 > p6
         /\ SubSeq(line, p7, Len(line)) # "" /\ startswith(SubSeq(line, p7, Len(line)), "@@")
        THEN <<DecimalValue(SubSeq(line, p4 + 1, p5 - 1))>>
        ELSE <<>>

\* modified_lines[file].add(n) on a defaultdict(set)
AddLine(ml, file, n) ==
  [f \in DOMAIN ml \cup {file} |->
     IF f = file THEN (IF f \in DOMAIN ml THEN ml[f] ELSE {}) \cup {n} ELSE ml[f]]

\* an added line, as the scan tells it
IsAddedLine(line) == startswith(line, "+") /\ ~startswith(line, "+++")

\* faulty variant: a running line number of 0 counts as inside a hunk
InHunk_FromZero(file, num) == file # <<>> /\ num >= 0

\* the scan is past a diff header and a hunk header with a positive start
InHunk(file, num) == file # <<>> /\ num > 0

\* faulty variant: context lines are recorded like added lines
ScanStep_RecordsContext(file, num, ml, line) ==
  IF git_diff_match(line) # <<>>
    THEN [file |-> git_diff_match(line), num |-> num, lines |-> ml]
  ELSE IF hunk_match(line) # <<>> /\ file # <<>>
    THEN [file |-> file, num |-> hunk_match(line)[1], lines |-> ml]
  ELSE IF InHunk(file, num) /\ (IsAddedLine(line) \/ startswith(line, " "))
    THEN [file |-> file, num |-> num + 1, lines |-> AddLine(ml, file[1], num)]
  ELSE [file |-> file, num |-> num, lines |-> ml]

\* one iteration of the loop over content.split('\n'): the scan state after
\* `line`, as [file, num, lines]
ScanStep(file, num, ml, line) ==
  IF git_diff_match(line) # <<>>
    THEN [file |-> git_diff_match(line), num |-> num, lines |-> ml]
  ELSE IF hunk_match(line) # <<>> /\ file # <<>>
    THEN [file |-> file, num |-> hunk_match(line)[1], lines |-> ml]
  ELSE IF InHunk(file, num)
    THEN IF IsAddedLine(line)
           THEN [file |-> file, num |-> num + 1, lines |-> AddLine(ml, file[1], num)]
         ELSE IF startswith(line, " ")
           THEN [file |-> file, num |-> num + 1, lines |-> ml]
         ELSE [file |-> file, num |-> num, lines |-> ml]
  ELSE [file |-> file, num |-> num, lines |-> ml]

(***************************************************************************)
(* extract_shell_info.py main                                              *)
(***************************************************************************)
\* [line.strip() for line in f if line.strip()]
StrippedLines(text) ==
  LET lines == FileLines(text)
      stripped == [i \in 1..Len(lines) |-> strip(lines[i])]
  IN  SelectSeq(stripped, LAMBDA l : l # "")

\* the text written by: for x in items: f.write(f"{x}\n")
RECURSIVE WriteLines(_)
WriteLines(items) ==
  IF items = <<>> THEN "" ELSE items[1] \o "\n" \o WriteLines(Tail(items))

\* faulty variant: descending order
RECURSIVE sorted_Descending(_)
sorted_Descending(S) ==
  IF S = {} THEN <<>> ELSE <<SetMax(S)>> \o sorted_Descending(S \ {SetMax(S)})

\* sorted(S) for a set of integers
RECURSIVE sorted(_)
sorted(S) == IF S = {} THEN <<>> ELSE <<SetMin(S)>> \o sorted(S \ {SetMin(S)})

\* faulty variant: a script without modified lines gets an empty entry
MapEntryLine_EmptyEntry(script, ml) ==
  LET lines == sorted(IF script \in DOMAIN ml THEN ml[script] ELSE {})
  IN  script \o ":" \o join(",", [i \in 1..Len(lines) |-> str(lines[i])]) \o "\n"

\* the line main writes to modified_lines_map.txt for one script
MapEntryLine(script, ml) ==
  IF script \in DOMAIN ml /\ ml[script] # {}
    THEN LET lines == sorted(ml[script])
             lines_str == join(",", [i \in 1..Len(lines) |-> str(lines[i])])
         IN  script \o ":" \o lines_str \o "\n"
    ELSE script \o ":all\n"

ChangesetFiles ==
  {NoFile, File(""), File("x.py\n"), File("a.sh\n"), File("a.sh\na.sh\n"),
   File(" a.sh \n\nrun\n"), File("run\nx.py\nb.sh")}

\* the files of the working tree that main may look at
ExtractFs ==
  [p \in {"run", "x.py"} |->
     IF p = "run" THEN File("#!/bin/sh\nls\n") ELSE File("#!/usr/bin/python\n")]

DiffLines ==
  {"diff --git a/a.sh b/a.sh", "diff --git a/run b/run", "+++ b/a.sh",
   "@@ -1 +1,2 @@", "@@ -0,0 +0,0 @@", "@@ -1,3 +10,3 @@",
   "+x", "+++x", " c", "-d"}

InitExtract ==
  /\ pc = "start"
  /\ exit_status = -1
  /\ stdout = <<>>
  /\ file_path = ""
  /\ fs = ExtractFs
  /\ ret = "none"
  /\ changeset \in ChangesetFiles
  /\ changed_files = <<>>
  /\ shell_scripts = <<>>
  /\ shell_scripts_txt = NoFile
  /\ content = <<>>
  /\ current_file = <<>>
  /\ current_line_num = 0
  /\ modified_lines = <<>>
  /\ k = 1
  /\ map_file = NoFile
  /\ shellcheck_installed = TRUE
  /\ RunIdle

\* lines 99-105: read the changeset, or exit 1 when it is missing
ReadChangeset ==
  /\ pc = "start"
  /\ IF changeset.kind = "file"
       THEN /\ changed_files' = StrippedLines(changeset.data)
            /\ pc' = "select"
            /\ UNCHANGED exit_status
       ELSE /\ exit_status' = 1
            /\ pc' = "exited"
            /\ UNCHANGED changed_files
  /\ UNCHANGED <<stdout, file_path, fs, ret, changeset, shell_scripts,
                 shell_scripts_txt, content, current_file, current_line_num,
                 modified_lines, k, map_file, run_vars>>

\* lines 107-123 and 143-147: select the shell scripts, write shell_scripts.txt
\* and print has_shell_scripts; without scripts the map file is left empty
SelectScripts ==
  /\ pc = "select"
  /\ LET scripts == SelectSeq(changed_files, is_shell_script)
     IN  /\ shell_scripts' = scripts
         /\ shell_scripts_txt' = File(WriteLines(scripts))
         /\ IF scripts # <<>>
              THEN /\ stdout' = Append(stdout, "has_shell_scripts=true")
                   /\ pc' = "parse"
                   /\ UNCHANGED <<map_file, exit_status>>
              ELSE /\ stdout' = Append(stdout, "has_shell_scripts=false")
                   /\ map_file' = File("")
                   /\ exit_status' = 0
                   /\ pc' = "done"
  /\ UNCHANGED <<file_path, fs, ret, changeset, changed_files, content,
                 current_file, current_line_num, modified_lines, k, run_vars>>

\* lines 50-60: open the diff; a missing diff file returns the empty mapping
\* at once, and main opens the map file for writing (line 129)
OpenDiff ==
  /\ pc = "parse"
  /\ \E exists \in BOOLEAN :
       /\ pc' = IF exists THEN "scan" ELSE "write"
       /\ map_file' = IF exists THEN map_file ELSE File("")
  /\ content' = <<>>
  /\ current_file' = <<>>
  /\ current_line_num' = 0
  /\ modified_lines' = <<>>
  /\ k' = 1
  /\ UNCHANGED <<exit_status, stdout, file_path, fs, ret, changeset,
                 changed_files, shell_scripts, shell_scripts_txt, run_vars>>

\* lines 62-86: one iteration of the scan, on the next line of the diff
ScanLine ==
  /\ pc = "scan"
  /\ Len(content) < MaxDiffLines
  /\ \E line \in DiffLines :
       LET s == ScanStep(current_file, current_line_num, modified_lines, line)
       IN  /\ content' = Append(content, line)
           /\ current_file' = s.file
           /\ current_line_num' = s.num
           /\ modified_lines' = s.lines
  /\ UNCHANGED <<pc, exit_status, stdout, file_path, fs, ret, changeset,
                 changed_files, shell_scripts, shell_scripts_txt, k, map_file,
                 run_vars>>

\* line 88: the diff is exhausted and the locals of parse_diff_file are gone;
\* main opens the map file for writing (line 129)
ReturnModified ==
  /\ pc = "scan"
  /\ pc' = "write"
  /\ map_file' = File("")
  /\ content' = <<>>
  /\ current_file' = <<>>
  /\ current_line_num' = 0
  /\ UNCHANGED <<exit_status, stdout, file_path, fs, ret, changeset,
                 changed_files, shell_scripts, shell_scripts_txt,
                 modified_lines, k, run_vars>>

\* lines 130-142: one iteration of the loop that writes the map file
WriteMapEntry ==
  /\ pc = "write"
  /\ k <= Len(shell_scripts)
  /\ map_file' = File(map_file.data \o MapEntryLine(shell_scripts[k], modified_lines))
  /\ k' = k + 1
  /\ UNCHANGED <<pc, exit_status, stdout, file_path, fs, ret, changeset,
                 changed_files, shell_scripts, shell_scripts_txt, content,
                 current_file, current_line_num, modified_lines, run_vars>>

\* main returns
ExtractDone ==
  /\ pc = "write"
  /\ k > Len(shell_scripts)
  /\ pc' = "done"
  /\ exit_status' = 0
  /\ UNCHANGED <<stdout, file_path, fs, ret, extract_vars, run_vars>>

NextExtract ==
  \/ ReadChangeset
  \/ SelectScripts
  \/ OpenDiff
  \/ ScanLine
  \/ ReturnModified
  \/ WriteMapEntry
  \/ ExtractDone

SpecExtract == InitExtract /\ [][NextExtract]_vars

(***************************************************************************)
(* run_shellcheck.py                                                       *)
(***************************************************************************)
\* faulty variant: a second code is taken as trivial
trivial_codes_More == <<"SC1071", "SC2086">>

trivial_codes == <<"SC1071">>

\* any(code in line for code in trivial_codes)
is_trivial(line) == \E c \in 1..Len(trivial_codes) : contains(line, trivial_codes[c])

\* the loop of filter_trivial_issues over the split lines
RECURSIVE FilterLoop(_)
FilterLoop(lines) ==
  IF lines = <<>> THEN <<>>
  ELSE (IF strip(lines[1]) # "" /\ ~is_trivial(lines[1]) THEN <<lines[1]>> ELSE <<>>)
         \o FilterLoop(Tail(lines))

filter_trivial_issues(shellcheck_output) == FilterLoop(split(shellcheck_output, "\n"))

\* faulty variant: a list that cannot be parsed counts as not modified
is_line_modified_StrictParse(path, line_num, modified_lines_str) ==
  IF modified_lines_str = "all" THEN TRUE
  ELSE LET parts == SelectSeq(split(modified_lines_str, ","), LAMBDA x : strip(x) # "")
       IN  /\ \A i \in 1..Len(parts) : int(strip(parts[i])).ok
           /\ line_num \in {int(strip(parts[i])).val : i \in 1..Len(parts)}

is_line_modified(path, line_num, modified_lines_str) ==
  IF modified_lines_str = "all" THEN TRUE
  ELSE LET parts == SelectSeq(split(modified_lines_str, ","), LAMBDA x : strip(x) # "")
       IN  IF \E i \in 1..Len(parts) : ~int(strip(parts[i])).ok
             THEN TRUE        \* ValueError: assumed modified
             ELSE line_num \in {int(strip(parts[i])).val : i \in 1..Len(parts)}

\* line.split(':', 1) for a line that holds a colon
SplitFirstColon(line) ==
  LET at == SetMin({i \in 1..Len(line) : Ch(line, i) = ":"})
  IN  <<SubSeq(line, 1, at - 1), SubSeq(line, at + 1, Len(line))>>

\* the loop of load_modified_lines_map: a later line of a path replaces an
\* earlier one
RECURSIVE LoadLoop(_, _)
LoadLoop(lines, map) ==
  IF lines = <<>> THEN map
  ELSE LET line == strip(lines[1])
       IN  IF contains(line, ":")
             THEN LoadLoop(Tail(lines),
                    [q \in DOMAIN map \cup {SplitFirstColon(line)[1]} |->
                       IF q = SplitFirstColon(line)[1]
                         THEN SplitFirstColon(line)[2] ELSE map[q]])
             ELSE LoadLoop(Tail(lines), map)

\* a missing map file gives the empty mapping
load_modified_lines_map(file) ==
  IF file.kind = "file" THEN LoadLoop(FileLines(file.data), <<>>) ELSE <<>>

\* gcc_format_pattern.match(line), r'^([^:]+):(\d+):\d+:.*$': <<>> when there
\* is no match, else <<group(1), int(group(2))>>
gcc_match(line) ==
  LET colons == {i \in 1..Len(line) : Ch(line, i) = ":"}
      c1 == IF colons = {} THEN 0 ELSE SetMin(colons)
      p2 == SpanEnd(line, c1 + 1, Digits)
      p3 == SpanEnd(line, p2 + 1, Digits)
  IN  IF /\ c1 > 1
         /\ p2 > c1 + 1 /\ Ch(line, p2) = ":"
         /\ p3 > p2 + 1 /\ Ch(line, p3) = ":"
        THEN <<SubSeq(line, 1, c1 - 1), DecimalValue(SubSeq(line, c1 + 1, p2 - 1))>>
        ELSE <<>>

\* modified_lines_map.get(file_path, "")
MapGet(map, path) == IF path \in DOMAIN map THEN map[path] ELSE ""

\* lines 177-186: whether the loop appends the line to diff_filtered_lines
KeepsLine(map, line) ==
  /\ gcc_match(line) # <<>>
  /\ MapGet(map, gcc_match(line)[1]) # ""
  /\ is_line_modified(gcc_match(line)[1], gcc_match(line)[2],
                      MapGet(map, gcc_match(line)[1]))

\* faulty variant: sys.exit(exit_code) at the end of main
ExitStatusOfMain_PassesExitCode(exit_code) == exit_code

\* main returns without a call of sys.exit: the interpreter exits with 0
ExitStatusOfMain(exit_code) == 0

\* what the linter may print for one script
FindingLines ==
  {"a.sh:5:1: SC2086", "a.sh:6:1: SC2086", "a.sh:5:1: SC1071",
   "b.sh:5:1: SC2086", "a.sh:5: SC2086", "  "}

\* the texts of n lines of FindingLines
RECURSIVE LinterTexts(_)
LinterTexts(n) ==
  IF n = 0 THEN {""}
  ELSE {""} \cup {l \o "\n" \o t : l \in FindingLines, t \in LinterTexts(n - 1)}

\* the number of lines of the outputs collected so far
RECURSIVE OutputLines(_)
OutputLines(outs) ==
  IF outs = <<>> THEN 0
  ELSE Len(FileLines(outs[1])) + OutputLines(Tail(outs))

RunScriptsFiles == {NoFile, File("a.sh\n"), File("gone.sh\n\na.sh\n b.sh\n")}

RunMapFiles ==
  {NoFile, File(""), File("a.sh:5,7\n"), File("a.sh:all\n"), File("a.sh:5,x\n"),
   File("a.sh:\nb.sh:6"), File("a.sh:7\nnone\na.sh: 5 ,,06\n")}

RunFs == [p \in {"a.sh", "b.sh"} |-> File("#!/bin/sh\nls $1\n")]

InitRun ==
  /\ pc = "run_start"
  /\ exit_status = -1
  /\ stdout = <<>>
  /\ file_path = ""
  /\ fs = RunFs
  /\ ret = "none"
  /\ changeset = NoFile
  /\ changed_files = <<>>
  /\ shell_scripts = <<>>
  /\ shell_scripts_txt \in RunScriptsFiles
  /\ content = <<>>
  /\ current_file = <<>>
  /\ current_line_num = 0
  /\ modified_lines = <<>>
  /\ k = 1
  /\ map_file \in RunMapFiles
  /\ shellcheck_installed \in BOOLEAN
  /\ RunIdle

\* lines 106-113: read the list of scripts; without the file the output is ""
OpenScripts ==
  /\ pc = "run_start"
  /\ IF shell_scripts_txt.kind = "file"
       THEN /\ shell_scripts' = StrippedLines(shell_scripts_txt.data)
            /\ pc' = "check"
            /\ UNCHANGED raw_output
       ELSE /\ raw_output' = ""
            /\ pc' = "filter"
            /\ UNCHANGED shell_scripts
  /\ k' = 1
  /\ all_output' = <<>>
  /\ UNCHANGED <<exit_status, stdout, file_path, fs, ret, changeset,
                 changed_files, shell_scripts_txt, content, current_file,
                 current_line_num, modified_lines, map_file,
                 shellcheck_installed, filtered_lines, modified_lines_map,
                 diff_filtered_lines, pos, out_files>>

\* lines 115-139: one iteration of the loop over the scripts. A script that is
\* no file is passed over; the linter's stdout and stderr are collected when
\* not empty; without the shellcheck command the function returns "".
CheckScript ==
  /\ pc = "check"
  /\ k <= Len(shell_scripts)
  /\ IF ~isfile(shell_scripts[k])
       THEN /\ k' = k + 1
            /\ UNCHANGED <<pc, all_output, raw_output>>
     ELSE IF ~shellcheck_installed
       THEN /\ raw_output' = ""
            /\ pc' = "filter"
            /\ UNCHANGED <<k, all_output>>
     ELSE \E out \in LinterTexts(MaxRawLines - OutputLines(all_output)),
             err \in {"", "a.sh: unreadable\n"} :
            /\ OutputLines(all_output) + Len(FileLines(out \o err)) <= MaxRawLines
            /\ all_output' = all_output
                               \o (IF out # "" THEN <<out>> ELSE <<>>)
                               \o (IF err # "" THEN <<err>> ELSE <<>>)
            /\ k' = k + 1
            /\ UNCHANGED <<pc, raw_output>>
  /\ UNCHANGED <<exit_status, stdout, file_path, fs, ret, changeset,
                 changed_files, shell_scripts, shell_scripts_txt, content,
                 current_file, current_line_num, modified_lines, map_file,
                 shellcheck_installed, filtered_lines, modified_lines_map,
                 diff_filtered_lines, pos, out_files>>

\* line 141: the outputs joined by newlines
JoinOutput ==
  /\ pc = "check"
  /\ k > Len(shell_scripts)
  /\ raw_output' = join("\n", all_output)
  /\ pc' = "filter"
  /\ UNCHANGED <<exit_status, stdout, file_path, fs, ret, extract_vars,
                 shellcheck_installed, all_output, filtered_lines,
                 modified_lines_map, diff_filtered_lines, pos, out_files>>

\* lines 157-173: write the raw output, filter the trivial issues, write the
\* filtered lines and load the map
FilterAndLoad ==
  /\ pc = "filter"
  /\ filtered_lines' = filter_trivial_issues(raw_output)
  /\ modified_lines_map' = load_modified_lines_map(map_file)
  /\ out_files' =
       [n \in {"shellcheck_raw.txt", "shellcheck_filtered.txt"} |->
          IF n = "shellcheck_raw.txt" THEN raw_output
          ELSE join("\n", filter_trivial_issues(raw_output))]
  /\ diff_filtered_lines' = <<>>
  /\ pos' = 1
  /\ pc' = "diff_filter"
  /\ UNCHANGED <<exit_status, stdout, file_path, fs, ret, extract_vars,
                 shellcheck_installed, all_output, raw_output>>

\* lines 175-189: one iteration of the loop over the filtered lines
DiffFilterLine ==
  /\ pc = "diff_filter"
  /\ pos <= Len(filtered_lines)
  /\ diff_filtered_lines' =
       IF strip(filtered_lines[pos]) # "" /\ KeepsLine(modified_lines_map, filtered_lines[pos])
         THEN Append(diff_filtered_lines, filtered_lines[pos])
         ELSE diff_filtered_lines
  /\ pos' = pos + 1
  /\ UNCHANGED <<pc, exit_status, stdout, file_path, fs, ret, extract_vars,
                 shellcheck_installed, all_output, raw_output, filtered_lines,
                 modified_lines_map, out_files>>

\* lines 191-212: write the diff-filtered output and the results file, print
\* total_issues and exit_code, and return
Finish ==
  /\ pc = "diff_filter"
  /\ pos > Len(filtered_lines)
  /\ LET total_issues == Len(diff_filtered_lines)
         exit_code == IF total_issues > 0 THEN 1 ELSE 0
     IN  /\ out_files' =
               [n \in DOMAIN out_files
                        \cup {"shellcheck_diff_filtered.txt", "shellcheck_results.txt"} |->
                  IF n = "shellcheck_diff_filtered.txt"
                    THEN join("\n", diff_filtered_lines)
                  ELSE IF n = "shellcheck_results.txt"
                    THEN (IF total_issues > 0 THEN join("\n", diff_filtered_lines) ELSE "")
                  ELSE out_files[n]]
         /\ stdout' = stdout \o <<"total_issues=" \o str(total_issues),
                                  "exit_code=" \o str(exit_code)>>
         /\ exit_status' = ExitStatusOfMain(exit_code)
  /\ pc' = "run_done"
  /\ UNCHANGED <<file_path, fs, ret, extract_vars, shellcheck_installed,
                 all_output, raw_output, filtered_lines, modified_lines_map,
                 diff_filtered_lines, pos>>

NextRun ==
  \/ OpenScripts
  \/ CheckScript
  \/ JoinOutput
  \/ FilterAndLoad
  \/ DiffFilterLine
  \/ Finish

SpecRun == InitRun /\ [][NextRun]_vars

(***************************************************************************)
(* The map file handed from extract_shell_info.py to run_shellcheck.py:    *)
(* main of the first script is about to write the map for one script and   *)
(* its set of modified lines; the second script loads the file and looks   *)
(* lines up.                                                               *)
(***************************************************************************)
RoundTripPaths == {"a.sh", "bin/run 1"}

InitRoundTrip ==
  /\ pc = "write"
  /\ exit_status = -1
  /\ stdout = <<"has_shell_scripts=true">>
  /\ file_path = ""
  /\ fs = ExtractFs
  /\ ret = "none"
  /\ changeset = NoFile
  /\ changed_files = <<>>
  /\ \E path \in RoundTripPaths, S \in SUBSET (1..MaxLineNo) :
       /\ shell_scripts = <<path>>
       /\ modified_lines = IF S = {} THEN <<>> ELSE [f \in {path} |-> S]
  /\ shell_scripts_txt = File(WriteLines(shell_scripts))
  /\ content = <<>>
  /\ current_file = <<>>
  /\ current_line_num = 0
  /\ k = 1
  /\ map_file = File("")
  /\ shellcheck_installed = TRUE
  /\ RunIdle

\* run_shellcheck.py main, line 169, on the map file the first script wrote
LoadWrittenMap ==
  /\ pc = "done"
  /\ modified_lines_map' = load_modified_lines_map(map_file)
  /\ pc' = "loaded"
  /\ UNCHANGED <<exit_status, stdout, file_path, fs, ret, extract_vars,
                 shellcheck_installed, all_output, raw_output, filtered_lines,
                 diff_filtered_lines, pos, out_files>>

\* lines 183-185: the entry of a script is looked up for a line number
QueryLine ==
  /\ pc = "loaded"
  /\ \E path \in DOMAIN modified_lines_map, n \in 0..(MaxLineNo + 1) :
       ret' = [path |-> path, line |-> n,
               modified |-> is_line_modified(path, n, MapGet(modified_lines_map, path))]
  /\ pc' = "queried"
  /\ UNCHANGED <<exit_status, stdout, file_path, fs, extract_vars, run_vars>>

NextRoundTrip ==
  \/ WriteMapEntry
  \/ ExtractDone
  \/ LoadWrittenMap
  \/ QueryLine

SpecRoundTrip == InitRoundTrip /\ [][NextRoundTrip]_vars

(***************************************************************************)
(* What a git diff shows, read as unified diff: after a hunk header and    *)
(* up to the next diff or hunk header every line is a line of the hunk,    *)
(* told by its first character alone.                                      *)
(***************************************************************************)
LinesOf(ml, f) == IF f \in DOMAIN ml THEN ml[f] ELSE {}

Front(q) == SubSeq(q, 1, Len(q) - 1)
Last(q) == q[Len(q)]

\* [file, hunk, num, added, shown] after the lines of c: the file and the
\* new-revision line number the diff is at, whether it is inside a hunk, and
\* per file the numbers shown as added, and as added or context
RECURSIVE Shown(_)
Shown(c) ==
  IF c = <<>>
    THEN [file |-> <<>>, hunk |-> FALSE, num |-> 0, added |-> <<>>, shown |-> <<>>]
    ELSE LET t == Shown(Front(c))
             line == Last(c)
         IN  IF git_diff_match(line) # <<>>
               THEN [t EXCEPT !.file = git_diff_match(line), !.hunk = FALSE]
             ELSE IF hunk_match(line) # <<>> /\ t.file # <<>>
               THEN [t EXCEPT !.hunk = TRUE, !.num = hunk_match(line)[1]]
             ELSE IF t.hunk /\ startswith(line, "+")
               THEN [t EXCEPT !.num = t.num + 1,
                              !.added = AddLine(t.added, t.file[1], t.num),
                              !.shown = AddLine(t.shown, t.file[1], t.num)]
             ELSE IF t.hunk /\ startswith(line, " ")
               THEN [t EXCEPT !.num = t.num + 1,
                              !.shown = AddLine(t.shown, t.file[1], t.num)]
             ELSE t

\* c is the beginning of a well-formed git diff: outside a hunk there are only
\* diff headers, file headers and hunk headers of a named file; inside a hunk
\* no line has the shape of a file header ("--- " or "+++ " and a name); a
\* hunk that starts at line 0 (an empty new revision) has no added or context
\* line
RECURSIVE ValidDiff(_)
ValidDiff(c) ==
  \/ c = <<>>
  \/ /\ ValidDiff(Front(c))
     /\ LET t == Shown(Front(c))
            line == Last(c)
        IN  \/ git_diff_match(line) # <<>>
            \/ hunk_match(line) # <<>> /\ t.file # <<>>
            \/ ~t.hunk /\ (startswith(line, "--- ") \/ startswith(line, "+++ "))
            \/ /\ t.hunk
               /\ hunk_match(line) = <<>>
               /\ ~(startswith(line, "--- ") \/ startswith(line, "+++ "))
               /\ t.num = 0 => ~(startswith(line, "+") \/ startswith(line, " "))

(***************************************************************************)
(* Claims about extract_shell_info.py                                      *)
(***************************************************************************)
\* C1: scanning a diff, every added line of a hunk of file F is recorded in
\* F's set under the hunk's new-start plus the number of added and context
\* lines before it in the hunk.
C1_AddedLinesRecorded ==
  (pc = "scan" /\ ValidDiff(content)) =>
    \A f \in DOMAIN Shown(content).added :
      Shown(content).added[f] \subseteq LinesOf(modified_lines, f)

\* C5 as stated: the set of a file holds every line number the diff shows as
\* an added or as a context line. Taken on the diffs whose added lines the
\* scan has all recorded, so that what fails is the context lines.
C5_AddedAndContextRecorded ==
  (/\ pc = "scan"
   /\ ValidDiff(content)
   /\ \A f \in DOMAIN Shown(content).added :
        Shown(content).added[f] \subseteq LinesOf(modified_lines, f)) =>
    \A f \in DOMAIN Shown(content).shown :
      Shown(content).shown[f] \subseteq LinesOf(modified_lines, f)

\* C5 amended: a line the scan takes as added (it starts with + but not with
\* +++, inside a hunk) puts the running line number into the file's set and
\* advances it; a context line only advances it; no other line changes the
\* sets.
C5_OnlyAddedRecorded ==
  [][(pc = "scan" /\ pc' = "scan") =>
       LET line == Last(content')
           inside == current_file # <<>> /\ current_line_num > 0
                       /\ git_diff_match(line) = <<>> /\ hunk_match(line) = <<>>
       IN  IF inside /\ startswith(line, "+") /\ ~startswith(line, "+++")
             THEN /\ modified_lines' =
                       AddLine(modified_lines, current_file[1], current_line_num)
                  /\ current_line_num' = current_line_num + 1
           ELSE /\ modified_lines' = modified_lines
                /\ (inside /\ startswith(line, " ")) =>
                      current_line_num' = current_line_num + 1]_vars

\* a context line was scanned inside a hunk and its number is not in the set
C5_Witness ==
  /\ pc = "scan"
  /\ Len(content) >= 3
  /\ startswith(Last(content), " ")
  /\ current_file # <<>>
  /\ current_line_num > 1
  /\ (current_line_num - 1) \notin LinesOf(modified_lines, current_file[1])
  /\ LinesOf(modified_lines, current_file[1]) # {}

\* a written map line `path:entry`, cut at its first colon
EntryOf(line) == SubSeq(line, SetMin({i \in 1..Len(line) : Ch(line, i) = ":"}) + 1, Len(line))
PathOf(line) == SubSeq(line, 1, SetMin({i \in 1..Len(line) : Ch(line, i) = ":"}) - 1)

\* the numbers an entry lists: none for `all`
EntryNumbers(entry) ==
  IF entry = "all" THEN {}
  ELSE {int(split(entry, ",")[j]).val : j \in 1..Len(split(entry, ","))}

\* C8: every line number recorded by the scan, and every one written to the
\* map file, is at least 1.
C8_PositiveLineNumbers ==
  /\ \A f \in DOMAIN modified_lines : \A n \in modified_lines[f] : n >= 1
  /\ map_file.kind = "file" =>
       \A i \in 1..Len(FileLines(map_file.data)) :
         \A n \in EntryNumbers(EntryOf(FileLines(map_file.data)[i])) : n >= 1

\* an added line was scanned right after a hunk header with new-start 0
C8_Witness ==
  /\ pc = "scan"
  /\ \E i \in 2..(Len(content) - 1) :
       /\ git_diff_match(content[i - 1]) # <<>>
       /\ hunk_match(content[i]) = <<0>>
       /\ IsAddedLine(content[i + 1])

\* C4: line i of the map file is for script i; it reads `path:all` exactly
\* when the diff gave no modified line for the script, and else `path:` and
\* the script's modified lines in decimal, comma-separated, strictly ascending.
C4_MapEntries ==
  (pc \in {"write", "done"} /\ shell_scripts # <<>>) =>
    LET lines == FileLines(map_file.data)
    IN  /\ Len(lines) = k - 1
        /\ \A i \in 1..Len(lines) :
             LET script == shell_scripts[i]
                 S == LinesOf(modified_lines, script)
                 desc == SubSeq(lines[i], Len(script) + 2, Len(lines[i]))
                 nums == split(desc, ",")
             IN  /\ startswith(lines[i], script \o ":")
                 /\ (desc = "all") <=> (S = {})
                 /\ S # {} =>
                      /\ \A j \in 1..Len(nums) :
                           /\ int(nums[j]).ok
                           /\ str(int(nums[j]).val) = nums[j]
                      /\ \A j \in 1..(Len(nums) - 1) :
                           int(nums[j]).val < int(nums[j + 1]).val
                      /\ {int(nums[j]).val : j \in 1..Len(nums)} = S

\* the map is written, with an `all` line and a line of several numbers
C4_Witness ==
  /\ pc = "done"
  /\ \E i, j \in 1..Len(shell_scripts) :
       /\ LinesOf(modified_lines, shell_scripts[i]) = {}
       /\ Cardinality(LinesOf(modified_lines, shell_scripts[j])) >= 2
       /\ Len(FileLines(map_file.data)) = Len(shell_scripts)

\* C9: the map file has at most one line per path.
C9_OneLinePerPath ==
  (pc = "done" /\ map_file.kind = "file") =>
    LET lines == FileLines(map_file.data)
    IN  \A i, j \in 1..Len(lines) : PathOf(lines[i]) = PathOf(lines[j]) => i = j

\* C10: a script's entry, written by the first script and loaded by the
\* second, reports line n as modified exactly when n is in the script's set,
\* and every n when the set is empty (the entry is `all`).
C10_RoundTrip ==
  pc = "queried" =>
    LET S == LinesOf(modified_lines, shell_scripts[1])
    IN  /\ ret.path = shell_scripts[1]
        /\ ret.modified = (IF S = {} THEN TRUE ELSE ret.line \in S)

\* a line of a set with a two-digit number was looked up and found modified
C10_Witness ==
  /\ pc = "queried"
  /\ {1, 10} \subseteq LinesOf(modified_lines, shell_scripts[1])
  /\ ret.line = 10
  /\ ret.modified

(***************************************************************************)
(* Claims about is_shell_script                                            *)
(***************************************************************************)
\* the first line of a file, without its terminator
FirstLine(data) == split(data, "\n")[1]

HasShellExtension(path) == endswith(path, ".sh") \/ endswith(path, ".bash")

\* C7 as stated: true for every path ending in .sh or .bash; for another path
\* true exactly when it is a readable regular file whose first line begins
\* with #! and contains bash or sh.
C7_ExtensionOrShebang ==
  pc = "classified" =>
    ret = \/ HasShellExtension(file_path)
          \/ /\ fs[file_path].kind = "file"
             /\ fs[file_path].readable
             /\ startswith(FirstLine(fs[file_path].data), "#!")
             /\ \/ contains(FirstLine(fs[file_path].data), "bash")
                \/ contains(FirstLine(fs[file_path].data), "sh")

\* C7 amended: as stated, with the first line taken without its leading and
\* trailing whitespace.
C7_ExtensionOrStrippedShebang ==
  pc = "classified" =>
    ret = \/ HasShellExtension(file_path)
          \/ /\ fs[file_path].kind = "file"
             /\ fs[file_path].readable
             /\ startswith(strip(FirstLine(fs[file_path].data)), "#!")
             /\ \/ contains(FirstLine(fs[file_path].data), "bash")
                \/ contains(FirstLine(fs[file_path].data), "sh")

\* a file without shell extension whose first line has whitespace before the
\* #! was classified as a shell script
C7_Witness ==
  /\ pc = "classified"
  /\ ~HasShellExtension(file_path)
  /\ ret = TRUE
  /\ ~startswith(FirstLine(fs[file_path].data), "#!")

(***************************************************************************)
(* Claims about run_shellcheck.py                                          *)
(***************************************************************************)
\* the non-blank pieces of a comma-separated entry
EntryPieces(entry) == SelectSeq(split(entry, ","), LAMBDA x : strip(x) # "")

\* the entry is a list of integers
EntryParses(entry) ==
  \A i \in 1..Len(EntryPieces(entry)) : int(EntryPieces(entry)[i]).ok

\* the line numbers an entry lists
EntryLists(entry) ==
  {int(EntryPieces(entry)[i]).val : i \in 1..Len(EntryPieces(entry))}

\* the lines of a text written as '\n'.join(lines)
JoinedLines(text) == IF text = "" THEN <<>> ELSE split(text, "\n")

\* C2: a GCC-format finding that passed the trivial filter is in the
\* diff-filtered output exactly when the map has a non-empty entry for its
\* file and the entry is `all`, or lists the line, or does not parse.
C2_DiffFilter ==
  pc = "run_done" =>
    LET written == JoinedLines(out_files["shellcheck_diff_filtered.txt"])
    IN  \A i \in 1..Len(filtered_lines) :
          LET m == gcc_match(filtered_lines[i])
              entry == MapGet(modified_lines_map, m[1])
          IN  m # <<>> =>
                ((\E w \in 1..Len(written) : written[w] = filtered_lines[i])
                   <=> /\ entry # ""
                       /\ \/ entry = "all"
                          \/ m[2] \in EntryLists(entry)
                          \/ ~EntryParses(entry))

\* with the entry a.sh:5,7 the finding on line 5 is kept and the one on line
\* 6 is not
C2_Witness ==
  /\ pc = "run_done"
  /\ MapGet(modified_lines_map, "a.sh") = "5,7"
  /\ \E a, b \in 1..Len(filtered_lines) :
       /\ filtered_lines[a] = "a.sh:5:1: SC2086"
       /\ filtered_lines[b] = "a.sh:6:1: SC2086"
  /\ diff_filtered_lines = <<"a.sh:5:1: SC2086">>

\* C3: the filtered lines are the non-blank lines of the linter output that
\* do not contain SC1071, unchanged and in their order.
C3_TrivialFiltered ==
  pc \in {"diff_filter", "run_done"} =>
    filtered_lines =
      SelectSeq(split(raw_output, "\n"),
                LAMBDA l : strip(l) # "" /\ ~contains(l, "SC1071"))

\* an SC1071 line was removed and a line with another code retained
C3_Witness ==
  /\ pc = "diff_filter"
  /\ contains(raw_output, "SC1071")
  /\ contains(raw_output, "SC2086")
  /\ filtered_lines # <<>>
  /\ \A i \in 1..Len(filtered_lines) : contains(filtered_lines[i], "SC2086")

\* C6: at the end of main the printed total_issues is the number of findings
\* the diff filter kept, the printed exit_code is 1 when that number is
\* positive and 0 otherwise, and the exit status of the process is 0.
C6_TotalsAndExit ==
  pc = "run_done" =>
    LET kept == Len(JoinedLines(out_files["shellcheck_diff_filtered.txt"]))
        total == stdout[Len(stdout) - 1]
        code == stdout[Len(stdout)]
    IN  /\ startswith(total, "total_issues=")
        /\ int(SubSeq(total, Len("total_issues=") + 1, Len(total))).ok
        /\ int(SubSeq(total, Len("total_issues=") + 1, Len(total))).val = kept
        /\ code = (IF kept > 0 THEN "exit_code=1" ELSE "exit_code=0")
        /\ exit_status = 0

\* main ended with findings on modified lines
C6_Witness ==
  /\ pc = "run_done"
  /\ Len(diff_filtered_lines) >= 2
  /\ stdout[Len(stdout)] = "exit_code=1"
  /\ exit_status = 0

====
